---- MODULE Spec2Model ----
(***************************************************************************)
(* GENMIX task execution engine: the queue scheduler (useTaskQueue), the   *)
(* side panel's executeTask, the task store (TaskStore over                *)
(* chrome.storage.local) and the React copy of the task list (useTasks).   *)
(*                                                                         *)
(* Every action is one run of JavaScript between two awaits.  An           *)
(* `await updateTask(...)` is taken as one step: the optimistic setTasks   *)
(* and the TaskStore.update that follows it.                               *)
(***************************************************************************)
EXTENDS Integers, Sequences, FiniteSets, TLC

\* ------------------------------------------------------------------ bounds
MaxTasks == 2          \* tasks in the store at start
MaxResults == 3        \* TaskResult ids that can be created in a behaviour
MaxInvocations == 3    \* executor invocations of one run
MaxDirect == 1         \* Fill Only executions that can be pending at once
MaxRuns == 1           \* runs that can come to their end in a behaviour
MaxTicks == 2          \* poll ticks of one waitForCompletion that are told apart
MaxUrls == 2           \* remote media URLs a result can name
MaxLabels == 5         \* labels of a hostname
RandomSteps == 4       \* values of Math.random() that are told apart
MaxImages == 2         \* reference images that can be saved in a behaviour

TaskIds == 1..MaxTasks
Slots == 0..MaxDirect          \* 0: the call made by processQueue; others: Fill Only clicks
DirectSlots == 1..MaxDirect

NoId == 0                      \* null executingId / no task
NoTab == 0                     \* tabId === null

VARIABLES
    store,          \* chrome.storage.local['genmix_tasks']: task id -> task record
    tasks,          \* useTasks' React state `tasks`
    tabId,          \* useActiveTab's tabId
    executingId,    \* useTaskQueue state
    queuedIds,      \* useTaskQueue state
    autoNext,       \* useTaskQueue state / autoNextRef
    retryOnFail,    \* useTaskQueue state / retryOnFailRef
    isRunning,      \* useTaskQueue state
    stoppedRef,     \* useTaskQueue ref
    loopPc,         \* where the processQueue activation is suspended
    remaining,      \* processQueue local `remaining`
    currentId,      \* processQueue local `currentId`
    runTasks,       \* the `tasks` closed over by the executeTask that processQueue calls
    exec,           \* one executeTask activation per slot
    nextResultId,   \* next fresh TaskResult id
    page,           \* content script: the EXECUTE_PROMPT handler serving each activation
    error,          \* the side panel's `error` state
    probe,          \* a PING sent to the tab
    delayMs,        \* the timer processQueue is waiting on
    tabUrl,         \* the URL the engine has navigated the tab to
    resultType,     \* task.resultType of each task
    txn,            \* TaskStore operations between their getAll and their set
    imageStore,     \* the IndexedDB image store: the stored image ids and the next fresh id
    referenceImageIds,  \* task.referenceImageIds of each task of the store
    runs,           \* history: runs that have reached the statements after the while loop
    runQueue,       \* history: the queue the current run was started with
    runLog,         \* history: executor invocations of the current run
    ignoredCall     \* history: a runAll/runSingle call returned at its isRunning guard

vars == <<store, tasks, tabId, executingId, queuedIds, autoNext, retryOnFail,
          isRunning, stoppedRef, loopPc, remaining, currentId, runTasks, exec,
          nextResultId, page, error, probe, delayMs, tabUrl, resultType, txn, imageStore, referenceImageIds, runs, runQueue, runLog,
          ignoredCall>>

\* ------------------------------------------------------------- data model
NewTask == [status |-> "pending", results |-> <<>>]

\* a TaskResult: its id and its cachedMediaIds (the content string is opaque to the engine)
NoResult == [id |-> 0, cachedMediaIds |-> <<>>]

\* media URLs: one data: URL and MaxUrls remote URLs
DataUrl == 0

MediaUrls == 0..MaxUrls

\* the results of the executions that are not about the media cache name at most one
\* remote URL
OneUrl == {{}, {1}}

IdleExec == [pc |-> "idle", taskId |-> NoId, fillOnly |-> FALSE, currentResults |-> <<>>,
             newResult |-> NoResult, sent |-> FALSE, nav |-> FALSE, ret |-> "none",
             mediaUrls |-> {}, stored |-> {}, cause |-> "none"]

ResultIds(rs) == [i \in 1..Len(rs) |-> rs[i].id]

\* { ...t, ...updates }
Merge(t, updates) ==
    [f \in DOMAIN t |-> IF f \in DOMAIN updates THEN updates[f] ELSE t[f]]

\* setTasks(prev => prev.map(t => t.id === id ? { ...t, ...updates } : t))
OptimisticUpdate(tk, id, updates) ==
    IF id \in DOMAIN tk THEN [tk EXCEPT ![id] = Merge(tk[id], updates)] ELSE tk

\* TaskStore.update: throws 'Task not found' when findIndex is -1
StoreHas(st, id) == id \in DOMAIN st

StoreUpdate(st, id, updates) == [st EXCEPT ![id] = Merge(st[id], updates)]

\* tasks.filter(t => t.id !== id)
StoreDelete(st, id) == [i \in (DOMAIN st) \ {id} |-> st[i]]

\* ------------------------------------------- adapters (content script)
\* const adapters: ToolAdapter[] = [ChatGPTAdapter, GeminiAdapter, JimengAdapter]
AdapterNames == {"chatgpt", "gemini", "jimeng"}

\* const adapters = [ChatGPTAdapter, GeminiAdapter, JimengAdapter]
adapters == <<"chatgpt", "gemini", "jimeng">>

\* window.location.hostname as its sequence of labels
Hosts == UNION { [1..n -> {"chatgpt", "com", "gemini", "google", "jimeng", "jianying"}] :
                  n \in 1..MaxLabels }

\* the domain each adapter looks for
Domain(a) ==
    CASE a = "chatgpt" -> <<"chatgpt", "com">>
      [] a = "gemini" -> <<"gemini", "google", "com">>
      [] a = "jimeng" -> <<"jimeng", "jianying", "com">>

\* hostname.includes(domain), label by label
Includes(host, domain) ==
    \E i \in 0..(Len(host) - Len(domain)) : SubSeq(host, i + 1, i + Len(domain)) = domain

\* detect: () => window.location.hostname.includes('...')
detect(a, host) == Includes(host, Domain(a))

\* adapters.find(a => a.detect()); "none": undefined
getAdapter(host) ==
    LET hits == {i \in DOMAIN adapters : detect(adapters[i], host)}
    IN IF hits = {} THEN "none"
       ELSE adapters[CHOOSE i \in hits : \A j \in hits : i <= j]

\* the pages of the three tools
ToolHosts == {Domain(a) : a \in AdapterNames}

\* the pages a PING is sent to: the tools' and one of no tool
ProbeHosts == ToolHosts \cup {<<"google", "com">>}

\* the optional capabilities each adapter defines
HasValidateState(a) == a = "jimeng"

\* the steps with a `throw`: fillPrompt and clickSend of every adapter, fillImages of Jimeng
CanThrow(a, step) ==
    \/ step \in {"fillPrompt", "clickSend"}
    \/ step = "fillImages" /\ a = "jimeng"

\* the kinds of artifact the latest item of a page can contain
Kinds == {"text", "image", "video"}

\* the page shows no item at all
NoItem == {"none"}

Items == (SUBSET Kinds) \cup {NoItem}

\* the payload of getLatestResult: the type of the serialized result ("null": null)
\* and whether it carries the image as base64
Payload(type, base64) == [type |-> type, base64 |-> base64]

NoPayload == Payload("unset", FALSE)

\* ChatGPTAdapter.getLatestResult(): the image of the last turn if it has one, else
\* its text; fetchOk: the background worker's FETCH_IMAGE succeeds
ChatGPTResult(item, fetchOk) ==
    IF item = NoItem THEN Payload("null", FALSE)
    ELSE IF "image" \in item THEN Payload("image", fetchOk)
    ELSE Payload("text", FALSE)

\* GeminiAdapter.getLatestResult(expectedType)
GeminiResult(item, expected) ==
    IF item = NoItem THEN Payload("null", FALSE)
    ELSE IF expected \in {"video", "mixed"} /\ "video" \in item THEN Payload("video", FALSE)
    ELSE IF expected \in {"image", "mixed"} /\ "image" \in item THEN Payload("image", FALSE)
    ELSE IF "video" \in item THEN Payload("video", FALSE)
    ELSE IF "image" \in item THEN Payload("image", FALSE)
    ELSE IF "text" \in item THEN Payload("text", FALSE)
    ELSE Payload("null", FALSE)

\* JimengAdapter.getLatestResult(expectedType)
JimengResult(item, expected, fetchOk) ==
    IF item = NoItem THEN Payload("null", FALSE)
    ELSE IF expected \in {"mixed", "image"} /\ "image" \in item THEN Payload("image", fetchOk)
    ELSE IF expected \in {"mixed", "video"} /\ "video" \in item THEN Payload("video", FALSE)
    ELSE Payload("null", FALSE)

getLatestResult(a, item, expected, fetchOk) ==
    CASE a = "chatgpt" -> ChatGPTResult(item, fetchOk)
      [] a = "gemini" -> GeminiResult(item, expected)
      [] a = "jimeng" -> JimengResult(item, expected, fetchOk)

\* the substrings of window.location.href that validateState looks for
\* a URL, as the set of those substrings it contains
Urls == SUBSET {"type=image", "type=video"}

\* the engine has not navigated the tab: its URL is whatever the user has opened
NoUrl == {"unknown"}

\* mutation: the corrective URL is the generate page without a type
RedirectUrl_NoType(type) == {}

\* the redirectUrl of JimengAdapter.validateState
RedirectUrl(type) ==
    CASE type = "image" -> {"type=image"}
      [] type = "video" -> {"type=video"}

\* JimengAdapter.validateState(task) on a page at url
validateState(type, url) ==
    IF type = "image" /\ "type=image" \notin url THEN "redirect"
    ELSE IF type = "video" /\ "type=video" \notin url THEN "redirect"
    ELSE "valid"

\* the handler calls adapter.waitForCompletion() with no argument: no signal is passed
SignalPassed == FALSE

\* one EXECUTE_PROMPT handler of the page: the step to run next, the adapter, whether
\* the message carries images, the steps run and the responses sent so far; gen is
\* the page's generation indicator, ticks the poll ticks of waitForCompletion that
\* found it set, cancelled whether a CANCEL_EXECUTION message has arrived meanwhile;
\* old: the page showed an artifact before the submission; item, expected, result and
\* origin describe the call of getLatestResult, again a second call of it
IdlePage == [pc |-> "idle", host |-> <<>>, adapter |-> "none", images |-> FALSE, steps |-> <<>>,
             responses |-> <<>>, gen |-> "none", ticks |-> 0, cancelled |-> FALSE,
             old |-> FALSE, item |-> NoItem, expected |-> "none", result |-> NoPayload,
             origin |-> "none", again |-> NoPayload]

\* ------------------------------------------------------------------- Init
\* a TaskStore operation: op with its arguments (id, updates, the result type of an
\* edit) and the arrays it read with getAll
IdleTxn == [pc |-> "idle", op |-> "none", id |-> NoId, updates |-> <<>>, type |-> "none",
            snap |-> <<>>, types |-> <<>>]

\* the side panel after it has loaded the tasks
InitEngine ==
    /\ store = [i \in TaskIds |-> NewTask]
    /\ tasks = store
    /\ tabId \in {NoTab, 1}
    /\ executingId = NoId
    /\ queuedIds = <<>>
    /\ autoNext = TRUE
    /\ retryOnFail = FALSE
    /\ isRunning = FALSE
    /\ stoppedRef = FALSE
    /\ loopPc = "idle"
    /\ remaining = <<>>
    /\ currentId = NoId
    /\ runTasks = <<>>
    /\ exec = [s \in Slots |-> IdleExec]
    /\ nextResultId = 1
    /\ page = [s \in Slots |-> IdlePage]
    /\ error = "none"
    /\ probe = [pc |-> "idle", loaded |-> FALSE, responses |-> <<>>]
    /\ delayMs = 0
    /\ runs = 0
    /\ runQueue = <<>>
    /\ runLog = <<>>
    /\ ignoredCall = FALSE
    /\ txn = [w \in {"engine", "dashboard"} |-> IdleTxn]
    /\ imageStore = [ids |-> {}, next |-> 1]
    /\ referenceImageIds = [i \in TaskIds |-> {}]

\* tasks whose result type is image
Init ==
    /\ InitEngine
    /\ tabUrl = NoUrl
    /\ resultType = [i \in TaskIds |-> "image"]

\* tasks of every result type
InitTyped ==
    /\ InitEngine
    /\ tabUrl = NoUrl
    /\ resultType \in [TaskIds -> {"text", "image", "video", "mixed"}]

\* ------------------------------------------------------------ history
\* runQueue, runLog and ignoredCall describe the run in progress, or the run
\* that has just ended until the next event; the closure of that run (runTasks)
\* is dropped with them.
KeepHistory ==
    IF loopPc = "idle"
    THEN /\ runQueue' = <<>>
         /\ runLog' = <<>>
         /\ ignoredCall' = FALSE
         /\ runTasks' = <<>>
    ELSE UNCHANGED <<runQueue, runLog, ignoredCall, runTasks>>

\* ------------------------------------------------- executeTask (App.tsx)
\* the update objects passed to updateTask
InProgressUpdate == [status |-> "in_progress"]

FillOnlyUpdate == [status |-> "pending"]

\* mutation: the new result is written twice
\* url.startsWith('data:')
IsDataUrl(u) == u = DataUrl

\* the mediaId under which saveMedia stores the blob fetched from u
Handle(u) == [sourceUrl |-> u]

\* the URLs of a result, in the order of the mediaUrls array
RECURSIVE UrlSeq(_)
UrlSeq(urls) ==
    IF urls = {} THEN <<>>
    ELSE LET first == CHOOSE u \in urls : \A v \in urls : u <= v
         IN <<first>> \o UrlSeq(urls \ {first})

\* mutation: one failed fetch fails the whole operation
cacheMediaUrls_AllOrNothing(urls, ok) ==
    LET kept == SelectSeq(UrlSeq(urls), LAMBDA u : ~IsDataUrl(u))
    IN IF \A i \in 1..Len(kept) : kept[i] \in ok
       THEN [i \in 1..Len(kept) |-> Handle(kept[i])]
       ELSE <<>>

\* the mediaIds cacheMediaUrls returns: data: URLs and failed fetches are skipped
cacheMediaUrls(urls, ok) ==
    LET kept == SelectSeq(UrlSeq(urls), LAMBDA u : ~IsDataUrl(u) /\ u \in ok)
    IN [i \in 1..Len(kept) |-> Handle(kept[i])]

SuccessUpdate_Twice(currentResults, newResult) ==
    [results |-> Append(Append(currentResults, newResult), newResult), status |-> "completed"]

SuccessUpdate(currentResults, newResult) ==
    [results |-> Append(currentResults, newResult), status |-> "completed"]

RedirectUpdate == [status |-> "pending"]

FailureUpdate == [status |-> "failed"]

CacheUpdate(currentResults, newResult, cachedMediaIds) ==
    [results |-> Append(currentResults, [newResult EXCEPT !.cachedMediaIds = cachedMediaIds])]

\* if (!tabId) return { success: false };  if (!task) return { success: false };
EarlyReturn(id, snapshot) == tabId = NoTab \/ id \notin DOMAIN snapshot

\* executeTask up to its first await: the guards, then updateTask's optimistic setTasks
BeginExec(s, id, fill, snapshot) ==
    IF EarlyReturn(id, snapshot)
    THEN IF s = 0
         THEN [IdleExec EXCEPT !.pc = "returned", !.taskId = id, !.fillOnly = fill, !.ret = "failure"]
         ELSE IdleExec
    ELSE [IdleExec EXCEPT !.pc = "starting", !.taskId = id, !.fillOnly = fill,
                          !.currentResults = snapshot[id].results]

BeginTasks(id, snapshot) ==
    IF EarlyReturn(id, snapshot) THEN tasks ELSE OptimisticUpdate(tasks, id, InProgressUpdate)

\* `return r` of executeTask: the queue's call is awaited by processQueue, a Fill Only call by nobody
Return(s, e, r) ==
    IF s = 0 THEN [e EXCEPT !.pc = "returned", !.ret = r] ELSE IdleExec

\* The promise of executeTask rejects. processQueue has no try/catch around
\* `await executeTask`, so its own promise rejects and the loop never resumes.
Rejects(s) ==
    /\ exec' = [exec EXCEPT ![s] = IdleExec]
    /\ loopPc' = IF s = 0 THEN "crashed" ELSE loopPc

\* TaskStore.update(in_progress) completes, getImages, chrome.tabs.sendMessage(EXECUTE_PROMPT)
ExecDispatch(s) ==
    /\ exec[s].pc = "starting"
    /\ IF StoreHas(store, exec[s].taskId)
       THEN /\ store' = StoreUpdate(store, exec[s].taskId, InProgressUpdate)
            /\ exec' = [exec EXCEPT ![s].pc = "sent", ![s].sent = TRUE]
            /\ UNCHANGED loopPc
       ELSE /\ Rejects(s)
            /\ UNCHANGED store
    /\ KeepHistory
    /\ UNCHANGED <<imageStore, referenceImageIds, txn, tabUrl, resultType, error, probe, delayMs, page, runs, tasks, tabId, executingId, queuedIds, autoNext, retryOnFail, isRunning,
                   stoppedRef, remaining, currentId, nextResultId>>

\* what chrome.tabs.sendMessage can settle with: a response of the handler (success,
\* redirect, error), a rejection because the tab has no listener (connerr) or because
\* the page went away before it answered (closed), or no response at all (silent)
Responses == {"success", "redirect", "error", "connerr", "closed", "silent"}

FailureResponses == {"error", "connerr", "closed", "silent"}

NoReceiverMessage == "Could not establish connection. Receiving end does not exist."

ChannelClosedMessage ==
    "A listener indicated an asynchronous response by returning true, but the message channel closed before a response was received"

\* e.message in the catch of executeTask
ThrownMessage(resp) ==
    CASE resp = "connerr" -> NoReceiverMessage
      [] resp = "closed" -> ChannelClosedMessage
      [] resp = "silent" -> "Unknown error"
      [] OTHER -> "adapter step failed"

\* e.message?.includes('Could not establish connection'): of the messages above only
\* the first contains it
IncludesNoConnection(msg) == msg = NoReceiverMessage

\* the message passed to setError in the catch: the reload hint or 'Failed: ' + e.message
UiError(msg) == IF IncludesNoConnection(msg) THEN "refresh" ELSE "failed"

\* sendMessage settles and executeTask handles the response up to its next await;
\* media: the media URLs the parsed result names
ExecOnResponse(s, resp, media) ==
    /\ exec[s].pc = "sent"
    /\ LET e == exec[s]
           id == e.taskId
           has == StoreHas(store, id)
           submit == resp = "success" /\ ~e.fillOnly
           newResult == [id |-> nextResultId, cachedMediaIds |-> <<>>]
           thrown == resp \in FailureResponses
           firstUpdate == IF resp = "redirect" THEN RedirectUpdate
                          ELSE IF submit THEN SuccessUpdate(e.currentResults, newResult)
                          ELSE FillOnlyUpdate
           inCatch == thrown \/ ~has
           tasks1 == IF thrown THEN tasks ELSE OptimisticUpdate(tasks, id, firstUpdate)
       IN
       /\ submit => nextResultId <= MaxResults
       /\ media \subseteq MediaUrls
       /\ ~submit => media = {}
       /\ tasks' = IF inCatch THEN OptimisticUpdate(tasks1, id, FailureUpdate) ELSE tasks1
       /\ store' = IF has
                   THEN StoreUpdate(store, id, IF thrown THEN FailureUpdate ELSE firstUpdate)
                   ELSE store
       /\ nextResultId' = IF submit THEN nextResultId + 1 ELSE nextResultId
       /\ page' = [page EXCEPT ![s] = IdlePage]
       /\ tabUrl' = IF resp = "redirect" THEN RedirectUrl(resultType[id]) ELSE tabUrl
       /\ error' = IF resp = "redirect" THEN "redirecting"
                   ELSE IF thrown /\ has THEN UiError(ThrownMessage(resp))
                   ELSE error
       /\ IF ~has
          THEN Rejects(s)
          ELSE /\ UNCHANGED loopPc
               /\ exec' = [exec EXCEPT ![s] =
                     IF thrown THEN Return(s, [e EXCEPT !.cause = resp], "failure")
                     ELSE IF resp = "redirect" THEN Return(s, [e EXCEPT !.nav = TRUE], "redirect")
                     ELSE IF submit /\ media # {}
                          THEN [e EXCEPT !.pc = "caching", !.newResult = newResult,
                                         !.mediaUrls = media]
                     ELSE IF submit THEN Return(s, [e EXCEPT !.newResult = newResult], "success")
                     ELSE Return(s, e, "success")]
    /\ KeepHistory
    /\ UNCHANGED <<imageStore, referenceImageIds, txn, resultType, probe, delayMs, runs, tabId, executingId, queuedIds, autoNext, retryOnFail,
                   isRunning, stoppedRef, remaining, currentId>>

\* cacheMediaUrls settles; ok: the URLs whose fetch and saveMedia succeed; stored: the
\* URLs whose blob is now in the media store. A rejected updateTask is swallowed by the
\* inner try/catch
ExecCacheDone(s, ok) ==
    /\ exec[s].pc = "caching"
    /\ ok \subseteq exec[s].mediaUrls
    /\ LET e == exec[s]
           id == e.taskId
           cachedMediaIds == cacheMediaUrls(e.mediaUrls, ok)
           any == Len(cachedMediaIds) > 0
           upd == CacheUpdate(e.currentResults, e.newResult, cachedMediaIds)
       IN
       /\ tasks' = IF any THEN OptimisticUpdate(tasks, id, upd) ELSE tasks
       /\ store' = IF any /\ StoreHas(store, id) THEN StoreUpdate(store, id, upd) ELSE store
       /\ exec' = [exec EXCEPT ![s] =
                     Return(s, [e EXCEPT !.stored = {u \in ok : ~IsDataUrl(u)}], "success")]
    /\ KeepHistory
    /\ UNCHANGED <<imageStore, referenceImageIds, txn, tabUrl, resultType, error, probe, delayMs, page, runs, tabId, executingId, queuedIds, autoNext, retryOnFail, isRunning,
                   stoppedRef, loopPc, remaining, currentId, nextResultId>>

\* ------------------------------ content script: EXECUTE_PROMPT handler
\* the step after validateState, after clearEditor, ... for this adapter and message
AfterClear(a, images) == IF images /\ a \in {"gemini", "jimeng"} THEN "fillImages" ELSE "fillPrompt"

AfterValidate(a, images) == IF a = "jimeng" THEN "clearEditor" ELSE AfterClear(a, images)

FirstStep(a, images) == IF HasValidateState(a) THEN "validateState" ELSE AfterValidate(a, images)

\* mutation: the prompt is submitted before it is filled in
NextStep_SendFirst(step, a, images) ==
    CASE step = "validateState" -> AfterValidate(a, images)
      [] step = "clearEditor" -> AfterClear(a, images)
      [] step = "fillImages" -> "clickSend"
      [] step = "fillPrompt" -> "settle"
      [] step = "clickSend" -> "fillPrompt"
      [] step = "settle" -> "waitForCompletion"
      [] OTHER -> "done"

NextStep(step, a, images) ==
    CASE step = "validateState" -> AfterValidate(a, images)
      [] step = "clearEditor" -> AfterClear(a, images)
      [] step = "fillImages" -> "fillPrompt"
      [] step = "fillPrompt" -> "clickSend"
      [] step = "clickSend" -> "settle"
      [] step = "settle" -> "waitForCompletion"
      [] OTHER -> "done"

\* sendResponse({ success: true, result })
SuccessResponse == [kind |-> "success", error |-> "none"]

\* sendResponse({ success: false, redirectUrl, error })
RedirectResponse == [kind |-> "redirect", error |-> "validateState"]

\* catch (err): sendResponse({ success: false, error: err.message })
ErrorResponse(step) == [kind |-> "error", error |-> step]

\* mutation: the handler goes on after it has answered with the redirect
AfterRedirect_FallsThrough(a, images) == AfterValidate(a, images)

\* sendResponse({ ..., redirectUrl }); return;
AfterRedirect(a, images) == "done"

\* mutation: the handler ends without calling sendResponse
ResultResponses_None == <<>>

\* what the handler sends once getLatestResult has returned
ResultResponses == <<SuccessResponse>>

\* the listener receives EXECUTE_PROMPT and starts the async handler
PageReceive(s, host, images, old) ==
    /\ exec[s].pc = "sent"
    /\ page[s].pc = "idle"
    /\ getAdapter(host) # "none"
    /\ LET a == getAdapter(host) IN
       page' = [page EXCEPT ![s] =
                  [IdlePage EXCEPT !.pc = FirstStep(a, images), !.host = host, !.adapter = a,
                                   !.images = images, !.old = old]]
    /\ KeepHistory
    /\ UNCHANGED <<imageStore, referenceImageIds, txn, tabUrl, resultType, error, probe, delayMs, runs, store, tasks, tabId, executingId, queuedIds,
                   autoNext, retryOnFail, isRunning, stoppedRef, loopPc, remaining, currentId,
                   exec, nextResultId>>

\* EXECUTE_PROMPT reaches a page on which no adapter matched: no listener was
\* installed and sendMessage rejects
PageNoListener(s, host) ==
    /\ page[s].pc = "idle"
    /\ getAdapter(host) = "none"
    /\ ExecOnResponse(s, "connerr", {})

\* the outcomes a step can have
StepOutcomes(a, step) ==
    IF step = "validateState" THEN {"valid", "redirect"}
    ELSE IF CanThrow(a, step) THEN {"ok", "throw"}
    ELSE {"ok"}

\* the handler runs its next step, up to the call of waitForCompletion; stuck: the
\* generation that clickSend starts never ends
PageStep(s, outcome, stuck, late) ==
    /\ page[s].pc \in {"validateState", "clearEditor", "fillImages", "fillPrompt",
                       "clickSend", "settle", "waitForCompletion"}
    /\ LET h == page[s]
           step == h.pc
           ran == Append(h.steps, step)
       IN
       /\ outcome \in StepOutcomes(h.adapter, step)
       /\ stuck => (step = "clickSend" /\ outcome = "ok")
       /\ late => (step = "clickSend" /\ outcome = "ok" /\ ~stuck)
       /\ page' = [page EXCEPT ![s] =
             IF outcome = "redirect"
             THEN [h EXCEPT !.pc = AfterRedirect(h.adapter, h.images), !.steps = ran,
                            !.responses = Append(h.responses, RedirectResponse)]
             ELSE IF outcome \in {"throw", "invalid"}
             THEN [h EXCEPT !.pc = "done", !.steps = ran,
                            !.responses = Append(h.responses, ErrorResponse(step))]
             ELSE IF step = "waitForCompletion"
             THEN [h EXCEPT !.pc = "polling", !.steps = ran]
             ELSE IF step = "clickSend"
             THEN [h EXCEPT !.pc = NextStep(step, h.adapter, h.images), !.steps = ran,
                            !.gen = IF late THEN "queued"
                                    ELSE IF stuck THEN "stuck" ELSE "running"]
             ELSE [h EXCEPT !.pc = NextStep(step, h.adapter, h.images), !.steps = ran]]
    /\ KeepHistory
    /\ UNCHANGED <<imageStore, referenceImageIds, txn, tabUrl, resultType, error, probe, delayMs, runs, store, tasks, tabId, executingId, queuedIds, autoNext, retryOnFail,
                   isRunning, stoppedRef, loopPc, remaining, currentId, exec, nextResultId>>

\* the handler calls adapter.validateState(message.task) on the page the tab shows:
\* the page the engine has navigated it to, or else any page
PageValidate(s, url) ==
    /\ page[s].pc = "validateState"
    /\ url \in Urls
    /\ tabUrl # NoUrl => url = tabUrl
    /\ PageStep(s, validateState(resultType[exec[s].taskId], url), FALSE, FALSE)

\* the tool's page finishes the generation: its in-progress indicators clear
PageGenerationDone(s) ==
    /\ page[s].gen = "running"
    /\ page' = [page EXCEPT ![s].gen = "done"]
    /\ KeepHistory
    /\ UNCHANGED <<imageStore, referenceImageIds, txn, tabUrl, resultType, error, probe, delayMs, runs, store, tasks, tabId, executingId, queuedIds, autoNext, retryOnFail,
                   isRunning, stoppedRef, loopPc, remaining, currentId, exec, nextResultId>>

\* the indicators of the generation started by clickSend appear
PageIndicatorAppears(s) ==
    /\ page[s].gen = "queued"
    /\ page' = [page EXCEPT ![s].gen = "running"]
    /\ KeepHistory
    /\ UNCHANGED <<imageStore, referenceImageIds, txn, tabUrl, resultType, error, probe, delayMs, runs, store, tasks, tabId, executingId, queuedIds,
                   autoNext, retryOnFail, isRunning, stoppedRef, loopPc, remaining, currentId,
                   exec, nextResultId>>

\* mutation: the poll resolves while the indicators are still set
Completed_Always(h) == TRUE

\* a generation-in-progress indicator is on the page
IndicatorVisible(h) == h.gen \in {"running", "stuck"}

\* the page shows an item that is complete: the new one, or an older one as long as
\* the new one has not appeared
HasItem(h) == h.gen = "done" \/ (h.gen = "queued" /\ h.old)

\* the poll finds no generation-in-progress indicator and, except on ChatGPT, an item
\* (Gemini: a model-response; Jimeng: a completed newest item)
Completed(h) == ~IndicatorVisible(h) /\ (h.adapter = "chatgpt" \/ HasItem(h))

\* signal?.aborted as the poll of this adapter sees it (only Gemini tests it)
SeesAbort(h) == h.adapter = "gemini" /\ SignalPassed /\ h.cancelled

\* one poll tick of waitForCompletion
PageWaitTick(s) ==
    /\ page[s].pc = "polling"
    /\ LET h == page[s] IN
       page' = [page EXCEPT ![s] =
             IF SeesAbort(h)
             THEN [h EXCEPT !.pc = "done",
                            !.responses = Append(h.responses, ErrorResponse("waitForCompletion"))]
             ELSE IF Completed(h)
             THEN [h EXCEPT !.pc = "getLatestResult"]
             ELSE [h EXCEPT !.ticks = (h.ticks + 1) % (MaxTicks + 1)]]
    /\ KeepHistory
    /\ UNCHANGED <<imageStore, referenceImageIds, txn, tabUrl, resultType, error, probe, delayMs, runs, store, tasks, tabId, executingId, queuedIds, autoNext, retryOnFail,
                   isRunning, stoppedRef, loopPc, remaining, currentId, exec, nextResultId>>

\* the safety timeout of waitForCompletion fires: clearInterval, resolve()
\* (ChatGPT 120 s, Jimeng 180 s; Gemini has none)
PageWaitTimeout(s) ==
    /\ page[s].pc = "polling"
    /\ page[s].adapter \in {"chatgpt", "jimeng"}
    /\ page' = [page EXCEPT ![s].pc = "getLatestResult"]
    /\ KeepHistory
    /\ UNCHANGED <<imageStore, referenceImageIds, txn, tabUrl, resultType, error, probe, delayMs, runs, store, tasks, tabId, executingId, queuedIds, autoNext, retryOnFail,
                   isRunning, stoppedRef, loopPc, remaining, currentId, exec, nextResultId>>

\* where the latest item of the page comes from when getLatestResult reads it: the
\* generation this execution started, an earlier one, or nowhere (no item)
Origin(h) ==
    IF h.gen = "done" \/ IndicatorVisible(h) THEN "new"
    ELSE IF h.old THEN "old"
    ELSE "none"

\* getLatestResult(message.task?.resultType), then sendResponse({ success: true, result });
\* item: what the latest item of the page contains
PageResult(s, item, fetchOk) ==
    /\ page[s].pc = "getLatestResult"
    /\ item \in Items
    /\ (item = NoItem) <=> (Origin(page[s]) = "none")
    /\ LET expected == resultType[exec[s].taskId] IN
       page' = [page EXCEPT ![s] =
                  [page[s] EXCEPT !.pc = "done",
                                  !.steps = Append(page[s].steps, "getLatestResult"),
                                  !.item = item,
                                  !.expected = expected,
                                  !.origin = Origin(page[s]),
                                  !.result = getLatestResult(page[s].adapter, item, expected, fetchOk),
                                  !.responses = page[s].responses \o ResultResponses]]
    /\ KeepHistory
    /\ UNCHANGED <<imageStore, referenceImageIds, txn, tabUrl, resultType, error, probe, delayMs, runs, store, tasks, tabId, executingId, queuedIds, autoNext, retryOnFail,
                   isRunning, stoppedRef, loopPc, remaining, currentId, exec, nextResultId>>

\* getLatestResult is called once more with the same expected type on the unchanged page
PageResultAgain(s, fetchOk) ==
    /\ page[s].pc = "done"
    /\ page[s].result # NoPayload
    /\ page[s].again = NoPayload
    /\ page' = [page EXCEPT ![s].again =
                  getLatestResult(page[s].adapter, page[s].item, page[s].expected, fetchOk)]
    /\ KeepHistory
    /\ UNCHANGED <<imageStore, referenceImageIds, txn, tabUrl, resultType, error, probe, delayMs, runs, store, tasks, tabId, executingId, queuedIds,
                   autoNext, retryOnFail, isRunning, stoppedRef, loopPc, remaining, currentId,
                   exec, nextResultId>>

\* ------------------------------ content script: PING
\* what the PING branch of the listener passes to sendResponse: nothing, it only
\* returns true
PingResponses == <<>>

\* chrome.tabs.sendMessage(tabId, { type: 'PING' })
PingSend ==
    /\ probe.pc = "idle"
    /\ tabId # NoTab
    /\ probe' = [probe EXCEPT !.pc = "sent"]
    /\ KeepHistory
    /\ UNCHANGED <<imageStore, referenceImageIds, txn, tabUrl, resultType, store, tasks, tabId, executingId, queuedIds, autoNext, retryOnFail, isRunning,
                   stoppedRef, loopPc, remaining, currentId, exec, nextResultId, page, error,
                   delayMs, runs>>

\* the listener of a loaded content script handles the PING: the channel stays
\* open, waiting for a sendResponse that nothing will call
PingHandle(host) ==
    /\ probe.pc = "sent"
    /\ getAdapter(host) # "none"
    /\ probe' = [pc |-> "open", loaded |-> TRUE, responses |-> probe.responses \o PingResponses]
    /\ KeepHistory
    /\ UNCHANGED <<imageStore, referenceImageIds, txn, tabUrl, resultType, store, tasks, tabId, executingId, queuedIds, autoNext, retryOnFail, isRunning,
                   stoppedRef, loopPc, remaining, currentId, exec, nextResultId, page, error,
                   delayMs, runs>>

\* the PING reaches a page without listener: sendMessage rejects
PingNoListener(host) ==
    /\ probe.pc = "sent"
    /\ getAdapter(host) = "none"
    /\ probe' = [probe EXCEPT !.pc = "rejected"]
    /\ KeepHistory
    /\ UNCHANGED <<imageStore, referenceImageIds, txn, tabUrl, resultType, store, tasks, tabId, executingId, queuedIds, autoNext, retryOnFail, isRunning,
                   stoppedRef, loopPc, remaining, currentId, exec, nextResultId, page, error,
                   delayMs, runs>>

\* the open channel of an unanswered PING is closed (page unloaded, sendResponse
\* collected): sendMessage rejects
PingChannelClosed ==
    /\ probe.pc = "open"
    /\ probe' = [probe EXCEPT !.pc = "rejected"]
    /\ KeepHistory
    /\ UNCHANGED <<imageStore, referenceImageIds, txn, tabUrl, resultType, store, tasks, tabId, executingId, queuedIds, autoNext, retryOnFail, isRunning,
                   stoppedRef, loopPc, remaining, currentId, exec, nextResultId, page, error,
                   delayMs, runs>>

\* chrome.tabs.sendMessage resolves with the response the handler sent
ExecOnPageResponse(s, media) ==
    /\ exec[s].pc = "sent"
    /\ page[s].responses # <<>>
    /\ ExecOnResponse(s, page[s].responses[1].kind, media)

\* --------------------------------------------- useTaskQueue (scheduler)
\* the queues the side panel can pass: ids of rendered tasks, each at most once
Queues ==
    { q \in UNION { [1..n -> DOMAIN tasks] : n \in 1..MaxTasks } :
        \A i, j \in DOMAIN q : i # j => q[i] # q[j] }

\* await new Promise(resolve => setTimeout(resolve, 3000)) after a redirect
RedirectWaitMs == 3000

\* mutation: the delay lacks its lower bound
RandomMs_NoFloor(r) == (r * 3000) \div RandomSteps

\* Math.floor(Math.random() * 3000) + 1000
RandomMs(r) == ((r * 3000) \div RandomSteps) + 1000

\* the delays randomDelay() can wait
randomDelay == {RandomMs(r) : r \in 0..(RandomSteps - 1)}

\* mutation: the guard never sees a run in progress
IsBusy_Never == FALSE

\* if (isRunning) return;
IsBusy == isRunning

\* mutation: the loop never looks at the stop flag
StopObserved_Never == FALSE

\* if (stoppedRef.current) break;
StopObserved == stoppedRef

\* mutation: the loop drops two ids per outcome
Advance_Two(rem) == IF Len(rem) > 1 THEN Tail(Tail(rem)) ELSE Tail(rem)

\* remaining = remaining.slice(1);
Advance(rem) == Tail(rem)

\* mutation: the failed task is put at the back of the queue
Requeue_Back(id, rem) == rem \o <<id>>

\* remaining = [currentId, ...remaining];
Requeue(id, rem) == <<id>> \o rem

\* mutation: a redirected task is sliced off like any other
KeepForRedirect_Sliced(rem) == Tail(rem)

\* continue; // Do not slice remaining, just loop again
KeepForRedirect(rem) == rem

\* mutation: the loop goes on whatever the auto-advance flag
AutoAdvance_Always == TRUE

\* autoNextRef.current
AutoAdvance == autoNext

\* mutation: the ref keeps the value the flag had on the first render
RetryOnFailRef_Stale == FALSE

\* retryOnFailRef.current = retryOnFail, on every render
RetryOnFailRef == retryOnFail

\* one executor invocation: the task, whether EXECUTE_PROMPT was sent, what
\* executeTask returned, whether it navigated the tab, whether a failure was
\* handled with retry-on-failure enabled, whether auto-advance was enabled
\* when the outcome was handled, and whether stop() had been called since the
\* last run when the invocation was made
LogEntry(id) ==
    [id |-> id, sent |-> FALSE, out |-> "running", nav |-> FALSE, retry |-> FALSE, auto |-> TRUE,
     afterStop |-> stoppedRef]

\* the three statements after the while loop
Finish ==
    /\ runs' = runs + 1
    /\ isRunning' = FALSE
    /\ executingId' = NoId
    /\ queuedIds' = <<>>
    /\ loopPc' = "idle"
    /\ remaining' = <<>>
    /\ currentId' = NoId

\* mutation: the loop takes the last id of the remaining queue
NextUp_Last(rem) == rem[Len(rem)]

\* const currentId = remaining[0]
NextUp(rem) == Head(rem)

\* mutation: the task being started stays in the displayed queue
Waiting_All(rem) == rem

\* setQueuedIds([...remaining.slice(1)])
Waiting(rem) == Tail(rem)

\* one pass from the top of the while body to `await executeTask(...)`
StartHead(rem, snapshot, log) ==
    /\ currentId' = NextUp(rem)
    /\ executingId' = NextUp(rem)
    /\ queuedIds' = Waiting(rem)
    /\ remaining' = rem
    /\ loopPc' = "exec"
    /\ exec' = [exec EXCEPT ![0] = BeginExec(0, NextUp(rem), FALSE, snapshot)]
    /\ tasks' = BeginTasks(NextUp(rem), snapshot)
    /\ error' = IF EarlyReturn(NextUp(rem), snapshot) THEN error ELSE "none"
    /\ runLog' = Append(log, LogEntry(NextUp(rem)))

\* mutation: a stop request made before the run is still seen by it
ResetStopped_Kept == stoppedRef

\* stoppedRef.current = false
ResetStopped == FALSE

\* processQueue(queue) up to its first await
ProcessQueue(queue) ==
    /\ runs < MaxRuns
    /\ UNCHANGED runs
    /\ isRunning' = TRUE
    /\ stoppedRef' = ResetStopped
    /\ runTasks' = tasks
    /\ runQueue' = queue
    /\ ignoredCall' = FALSE
    /\ StartHead(queue, tasks, <<>>)
    /\ UNCHANGED <<imageStore, referenceImageIds, txn, tabUrl, resultType, probe, delayMs, page, store, tabId, autoNext, retryOnFail, nextResultId>>

IgnoreCall ==
    /\ ignoredCall' = TRUE
    /\ UNCHANGED <<imageStore, referenceImageIds, txn, tabUrl, resultType, error, probe, delayMs, page, runs, store, tasks, tabId, executingId, queuedIds, autoNext, retryOnFail,
                   isRunning, stoppedRef, loopPc, remaining, currentId, runTasks, exec,
                   nextResultId, runQueue, runLog>>

RunAll(taskIds) ==
    IF IsBusy THEN IgnoreCall ELSE ProcessQueue(taskIds)

RunSingle(taskId) ==
    IF IsBusy THEN IgnoreCall ELSE ProcessQueue(<<taskId>>)

\* stop(), with onStop = handleStop: CANCEL_EXECUTION is sent to the tab, where the
\* listener has no branch for it
Stop ==
    /\ stoppedRef' = TRUE
    /\ queuedIds' = <<>>
    /\ page' = [s \in Slots |->
                  IF page[s].pc \in {"idle", "done"}
                  THEN page[s]
                  ELSE [page[s] EXCEPT !.cancelled = TRUE]]
    /\ KeepHistory
    /\ UNCHANGED <<imageStore, referenceImageIds, txn, tabUrl, resultType, error, probe, delayMs, runs, store, tasks, tabId, executingId, autoNext, retryOnFail, isRunning,
                   loopPc, remaining, currentId, exec, nextResultId>>

SetAutoNext(v) ==
    /\ autoNext # v
    /\ autoNext' = v
    /\ KeepHistory
    /\ UNCHANGED <<imageStore, referenceImageIds, txn, tabUrl, resultType, error, probe, delayMs, page, runs, store, tasks, tabId, executingId, queuedIds, retryOnFail, isRunning,
                   stoppedRef, loopPc, remaining, currentId, exec, nextResultId>>

SetRetryOnFail(v) ==
    /\ retryOnFail # v
    /\ retryOnFail' = v
    /\ KeepHistory
    /\ UNCHANGED <<imageStore, referenceImageIds, txn, tabUrl, resultType, error, probe, delayMs, page, runs, store, tasks, tabId, executingId, queuedIds, autoNext, isRunning,
                   stoppedRef, loopPc, remaining, currentId, exec, nextResultId>>

\* processQueue resumes after `await executeTask(...)` and runs to its next await or to its end
LoopAfterExecute ==
    /\ loopPc = "exec"
    /\ exec[0].pc = "returned"
    /\ LET e == exec[0]
           failed == e.ret = "failure"
           rest == Advance(remaining)
       IN
       /\ exec' = [exec EXCEPT ![0] = IdleExec]
       /\ runLog' = [runLog EXCEPT ![Len(runLog)] =
                        [id |-> e.taskId, sent |-> e.sent, out |-> e.ret, nav |-> e.nav,
                         retry |-> (failed /\ retryOnFail), auto |-> autoNext,
                         afterStop |-> runLog[Len(runLog)].afterStop]]
       /\ IF StopObserved THEN Finish /\ UNCHANGED delayMs
          ELSE IF e.ret = "redirect"
          THEN /\ remaining' = KeepForRedirect(remaining)
               /\ loopPc' = "redirectWait"
               /\ delayMs' = RedirectWaitMs
               /\ executingId' = NoId
               /\ UNCHANGED <<runs, queuedIds, isRunning, currentId>>
          ELSE IF failed /\ RetryOnFailRef
          THEN /\ remaining' = Requeue(currentId, rest)
               /\ queuedIds' = Requeue(currentId, rest)
               /\ loopPc' = "retryDelay"
               /\ delayMs' \in randomDelay
               /\ executingId' = NoId
               /\ UNCHANGED <<runs, isRunning, currentId>>
          ELSE IF ~AutoAdvance THEN Finish /\ UNCHANGED delayMs
          ELSE IF rest # <<>>
          THEN /\ remaining' = rest
               /\ loopPc' = "nextDelay"
               /\ delayMs' \in randomDelay
               /\ executingId' = NoId
               /\ UNCHANGED <<runs, queuedIds, isRunning, currentId>>
          ELSE Finish /\ UNCHANGED delayMs
    /\ UNCHANGED <<imageStore, referenceImageIds, txn, tabUrl, resultType, error, probe, page, store, tasks, tabId, autoNext, retryOnFail, stoppedRef, runTasks,
                   nextResultId, runQueue, ignoredCall>>

\* a delay (3 s after a redirect, randomDelay otherwise) elapses: back to the top of the while
LoopAfterDelay ==
    /\ loopPc \in {"redirectWait", "retryDelay", "nextDelay"}
    /\ IF remaining = <<>> \/ StopObserved
       THEN /\ Finish
            /\ UNCHANGED <<exec, tasks, runLog, error>>
       ELSE /\ Len(runLog) < MaxInvocations
            /\ StartHead(remaining, runTasks, runLog)
            /\ UNCHANGED <<runs, isRunning>>
    /\ delayMs' = 0
    /\ UNCHANGED <<imageStore, referenceImageIds, txn, tabUrl, resultType, probe, page, store, tabId, autoNext, retryOnFail, stoppedRef, runTasks,
                   nextResultId, runQueue, ignoredCall>>

\* -------------------------------------------- other callers and writers
\* the Fill Only button: executeTask({ taskId, fillOnly: true }), rendered enabled while !isRunning
FillOnlyClick(s, id) ==
    /\ ~isRunning
    /\ exec[s].pc = "idle"
    /\ id \in DOMAIN tasks
    /\ ~EarlyReturn(id, tasks)
    /\ exec' = [exec EXCEPT ![s] = BeginExec(s, id, TRUE, tasks)]
    /\ tasks' = BeginTasks(id, tasks)
    /\ error' = "none"
    /\ KeepHistory
    /\ UNCHANGED <<imageStore, referenceImageIds, txn, tabUrl, resultType, probe, delayMs, page, runs, store, tabId, executingId, queuedIds, autoNext, retryOnFail, isRunning,
                   stoppedRef, loopPc, remaining, currentId, nextResultId>>

\* handleCaptureImport(taskId, results) with one captured TaskResult
CaptureImport(id) ==
    /\ id \in DOMAIN tasks
    /\ nextResultId <= MaxResults
    /\ LET captured == [id |-> nextResultId, cachedMediaIds |-> <<>>]
           upd == [results |-> Append(tasks[id].results, captured), status |-> "completed"]
       IN
       /\ tasks' = OptimisticUpdate(tasks, id, upd)
       /\ store' = IF StoreHas(store, id) THEN StoreUpdate(store, id, upd) ELSE store
    /\ nextResultId' = nextResultId + 1
    /\ KeepHistory
    /\ UNCHANGED <<imageStore, referenceImageIds, txn, tabUrl, resultType, error, probe, delayMs, page, runs, tabId, executingId, queuedIds, autoNext,
                   retryOnFail, isRunning, stoppedRef, loopPc, remaining, currentId, exec>>

\* the dashboard page deletes a task: TaskStore.delete(id)
DashboardDelete(id) ==
    /\ StoreHas(store, id)
    /\ store' = StoreDelete(store, id)
    /\ KeepHistory
    /\ UNCHANGED <<imageStore, referenceImageIds, txn, tabUrl, resultType, error, probe, delayMs, page, runs, tasks, tabId, executingId, queuedIds, autoNext, retryOnFail, isRunning,
                   stoppedRef, loopPc, remaining, currentId, exec, nextResultId>>

\* chrome.storage.onChanged listener: loadTasks()
Reload ==
    /\ tasks # store
    /\ tasks' = store
    /\ KeepHistory
    /\ UNCHANGED <<imageStore, referenceImageIds, txn, tabUrl, resultType, error, probe, delayMs, page, runs, store, tabId, executingId, queuedIds, autoNext, retryOnFail, isRunning,
                   stoppedRef, loopPc, remaining, currentId, exec, nextResultId>>

\* ------------------- TaskStore operations as they run: getAll, then set
\* const tasks = await this.getAll()
TxnRead(op, id, updates, type) ==
    [pc |-> "read", op |-> op, id |-> id, updates |-> updates, type |-> type,
     snap |-> store, types |-> resultType]

\* the array an operation hands to chrome.storage.local.set: the array it read, with
\* its own task replaced (update) or filtered out (delete)
TxnStore(t) ==
    IF t.op = "delete" THEN StoreDelete(t.snap, t.id) ELSE StoreUpdate(t.snap, t.id, t.updates)

\* the result types in that array
TxnTypes(t) == IF t.type = "none" THEN t.types ELSE [t.types EXCEPT ![t.id] = t.type]

\* await chrome.storage.local.set({ [STORAGE_KEY]: tasks })
TxnWrite(w) ==
    /\ txn[w].pc = "read"
    /\ store' = TxnStore(txn[w])
    /\ resultType' = TxnTypes(txn[w])
    /\ txn' = [txn EXCEPT ![w] = IdleTxn]

\* executeTask's first updateTask: TaskStore.update(in_progress) reads the array
ExecPersistRead(s) ==
    /\ exec[s].pc = "starting"
    /\ txn["engine"].pc = "idle"
    /\ IF StoreHas(store, exec[s].taskId)
       THEN /\ txn' = [txn EXCEPT !["engine"] =
                         TxnRead("update", exec[s].taskId, InProgressUpdate, "none")]
            /\ exec' = [exec EXCEPT ![s].pc = "persisting"]
            /\ UNCHANGED loopPc
       ELSE /\ Rejects(s)
            /\ UNCHANGED txn
    /\ KeepHistory
    /\ UNCHANGED <<imageStore, referenceImageIds, store, tasks, tabId, executingId, queuedIds, autoNext, retryOnFail, isRunning,
                   stoppedRef, remaining, currentId, nextResultId, page, error, probe, delayMs,
                   tabUrl, resultType, runs>>

\* it writes the array; then getImages and chrome.tabs.sendMessage(EXECUTE_PROMPT)
ExecPersistWrite(s) ==
    /\ exec[s].pc = "persisting"
    /\ TxnWrite("engine")
    /\ exec' = [exec EXCEPT ![s].pc = "sent", ![s].sent = TRUE]
    /\ KeepHistory
    /\ UNCHANGED <<imageStore, referenceImageIds, tasks, tabId, executingId, queuedIds, autoNext, retryOnFail, isRunning,
                   stoppedRef, loopPc, remaining, currentId, nextResultId, page, error, probe,
                   delayMs, tabUrl, runs>>

\* what the handler of the page answers
HandlerResponses == {"success", "redirect", "error"}

\* the response arrives: the optimistic setTasks of the updateTask that records the
\* outcome, and the getAll of its TaskStore.update
ExecOutcomeRead(s, resp) ==
    /\ exec[s].pc = "sent"
    /\ txn["engine"].pc = "idle"
    /\ resp \in HandlerResponses
    /\ LET e == exec[s]
           id == e.taskId
           has == StoreHas(store, id)
           submit == resp = "success" /\ ~e.fillOnly
           newResult == [id |-> nextResultId, cachedMediaIds |-> <<>>]
           thrown == resp \in FailureResponses
           firstUpdate == IF resp = "redirect" THEN RedirectUpdate
                          ELSE IF submit THEN SuccessUpdate(e.currentResults, newResult)
                          ELSE FillOnlyUpdate
           update == IF thrown THEN FailureUpdate ELSE firstUpdate
           ret == IF thrown THEN "failure" ELSE resp
       IN
       /\ submit => nextResultId <= MaxResults
       /\ resp = "redirect" => validateState(resultType[id], {}) = "redirect"
       /\ tasks' = IF has THEN OptimisticUpdate(tasks, id, update)
                   ELSE OptimisticUpdate(OptimisticUpdate(tasks, id, update), id, FailureUpdate)
       /\ nextResultId' = IF submit THEN nextResultId + 1 ELSE nextResultId
       /\ tabUrl' = IF resp = "redirect" THEN RedirectUrl(resultType[id]) ELSE tabUrl
       /\ error' = IF resp = "redirect" THEN "redirecting"
                   ELSE IF thrown /\ has THEN UiError(ThrownMessage(resp))
                   ELSE error
       /\ IF ~has
          THEN /\ Rejects(s)
               /\ UNCHANGED txn
          ELSE /\ UNCHANGED loopPc
               /\ txn' = [txn EXCEPT !["engine"] = TxnRead("update", id, update, "none")]
               /\ exec' = [exec EXCEPT ![s] =
                     [e EXCEPT !.pc = "recording", !.ret = ret, !.nav = (resp = "redirect"),
                               !.cause = IF thrown THEN resp ELSE e.cause,
                               !.newResult = IF submit THEN newResult ELSE e.newResult]]
    /\ KeepHistory
    /\ UNCHANGED <<imageStore, referenceImageIds, store, tabId, executingId, queuedIds, autoNext, retryOnFail, isRunning,
                   stoppedRef, remaining, currentId, page, probe, delayMs, resultType, runs>>

\* that TaskStore.update writes the array, and executeTask returns
ExecOutcomeWrite(s) ==
    /\ exec[s].pc = "recording"
    /\ TxnWrite("engine")
    /\ exec' = [exec EXCEPT ![s] = Return(s, exec[s], exec[s].ret)]
    /\ KeepHistory
    /\ UNCHANGED <<imageStore, referenceImageIds, tasks, tabId, executingId, queuedIds, autoNext, retryOnFail, isRunning,
                   stoppedRef, loopPc, remaining, currentId, nextResultId, page, error, probe,
                   delayMs, tabUrl, runs>>

\* the result types the edits of the dashboard choose
EditTypes == {"image", "video"}

\* the dashboard starts a TaskStore operation on a task: delete(id), or the
\* update(id, { title, tool, resultType, prompt, referenceImageIds }) of an edit
DashboardRead(op, id, type) ==
    /\ txn["dashboard"].pc = "idle"
    /\ StoreHas(store, id)
    /\ \/ op = "delete" /\ type = "none"
       \/ op = "update" /\ type \in EditTypes
    /\ txn' = [txn EXCEPT !["dashboard"] = TxnRead(op, id, <<>>, type)]
    /\ KeepHistory
    /\ UNCHANGED <<imageStore, referenceImageIds, store, tasks, tabId, executingId, queuedIds, autoNext, retryOnFail, isRunning,
                   stoppedRef, loopPc, remaining, currentId, exec, nextResultId, page, error,
                   probe, delayMs, tabUrl, resultType, runs>>

\* the dashboard's operation writes the array
DashboardWrite ==
    /\ TxnWrite("dashboard")
    /\ KeepHistory
    /\ UNCHANGED <<imageStore, referenceImageIds, tasks, tabId, executingId, queuedIds, autoNext, retryOnFail, isRunning,
                   stoppedRef, loopPc, remaining, currentId, exec, nextResultId, page, error,
                   probe, delayMs, tabUrl, runs>>

\* ------------------------------------ dashboard: tasks and their images
\* crypto.randomUUID() for a new task: an id no task of the store has
FreeIds == TaskIds \ DOMAIN store

NewId == CHOOSE i \in FreeIds : \A j \in FreeIds : i <= j

\* saveImage for each of n selected files: n fresh image ids
NewImages(n) == imageStore.next .. (imageStore.next + n - 1)

\* CreateTaskModal.handleSubmit with n files, then TaskStore.add
CreateTask(n) ==
    /\ FreeIds # {}
    /\ imageStore.next + n - 1 <= MaxImages
    /\ imageStore' = [ids |-> imageStore.ids \cup NewImages(n), next |-> imageStore.next + n]
    /\ store' = [i \in DOMAIN store \cup {NewId} |-> IF i = NewId THEN NewTask ELSE store[i]]
    /\ referenceImageIds' = [i \in DOMAIN store \cup {NewId} |->
                               IF i = NewId THEN NewImages(n) ELSE referenceImageIds[i]]
    /\ KeepHistory
    /\ UNCHANGED <<tasks, tabId, executingId, queuedIds, autoNext, retryOnFail, isRunning,
                   stoppedRef, loopPc, remaining, currentId, exec, nextResultId, page, error,
                   probe, delayMs, tabUrl, resultType, txn, runs>>

\* EditTaskModal.handleSubmit: kept: the previews of stored images the user has
\* left in the form, n: the files added; deleteImages(removedIds), saveImage for
\* each new file, onSave(task.id, { ..., referenceImageIds: finalIds })
EditSubmit(id, kept, n) ==
    /\ StoreHas(store, id)
    /\ kept \subseteq (referenceImageIds[id] \cap imageStore.ids)
    /\ imageStore.next + n - 1 <= MaxImages
    /\ LET removedIds == referenceImageIds[id] \ kept IN
       /\ imageStore' = [ids |-> (imageStore.ids \ removedIds) \cup NewImages(n),
                     next |-> imageStore.next + n]
       /\ referenceImageIds' = [referenceImageIds EXCEPT ![id] = kept \cup NewImages(n)]
    /\ KeepHistory
    /\ UNCHANGED <<store, tasks, tabId, executingId, queuedIds, autoNext, retryOnFail,
                   isRunning, stoppedRef, loopPc, remaining, currentId, exec, nextResultId,
                   page, error, probe, delayMs, tabUrl, resultType, txn, runs>>

\* EditTaskModal.handleDelete (confirmed): deleteImages(task.referenceImageIds),
\* then onDelete(task.id)
EditDelete(id) ==
    /\ StoreHas(store, id)
    /\ imageStore' = [imageStore EXCEPT !.ids = imageStore.ids \ referenceImageIds[id]]
    /\ store' = StoreDelete(store, id)
    /\ referenceImageIds' = StoreDelete(referenceImageIds, id)
    /\ KeepHistory
    /\ UNCHANGED <<tasks, tabId, executingId, queuedIds, autoNext, retryOnFail, isRunning,
                   stoppedRef, loopPc, remaining, currentId, exec, nextResultId, page, error,
                   probe, delayMs, tabUrl, resultType, txn, runs>>

\* TaskStore.duplicateTask(id)
DuplicateTask(id) ==
    /\ StoreHas(store, id)
    /\ FreeIds # {}
    /\ store' = [i \in DOMAIN store \cup {NewId} |-> IF i = NewId THEN NewTask ELSE store[i]]
    /\ referenceImageIds' = [i \in DOMAIN store \cup {NewId} |->
                               IF i = NewId THEN referenceImageIds[id]
                               ELSE referenceImageIds[i]]
    /\ resultType' = [resultType EXCEPT ![NewId] = resultType[id]]
    /\ KeepHistory
    /\ UNCHANGED <<imageStore, tasks, tabId, executingId, queuedIds, autoNext, retryOnFail,
                   isRunning, stoppedRef, loopPc, remaining, currentId, exec, nextResultId,
                   page, error, probe, delayMs, tabUrl, txn, runs>>

\* ------------------------------------------------------------------- Next
\* a run: its start, the loop, the executions and the page's answers
CoreNext ==
    \/ \E q \in Queues : RunAll(q)
    \/ \E id \in DOMAIN tasks : RunSingle(id)
    \/ LoopAfterExecute
    \/ LoopAfterDelay
    \/ \E s \in Slots : ExecDispatch(s)
    \/ \E s \in Slots, resp \in Responses, media \in OneUrl : ExecOnResponse(s, resp, media)
    \/ \E s \in Slots, ok \in SUBSET MediaUrls : ExecCacheDone(s, ok)

\* the scheduler with its controls
Next ==
    \/ CoreNext
    \/ Stop
    \/ \E v \in BOOLEAN : SetAutoNext(v)
    \/ \E v \in BOOLEAN : SetRetryOnFail(v)

\* a run next to a dashboard page that deletes tasks
DashboardNext ==
    \/ CoreNext
    \/ Stop
    \/ \E id \in TaskIds : DashboardDelete(id)
    \/ Reload

\* a run next to the Fill Only button
FillNext ==
    \/ CoreNext
    \/ \E s \in DirectSlots, id \in TaskIds : FillOnlyClick(s, id)

\* a run next to imports of captured results
StoreNext ==
    \/ CoreNext
    \/ \E id \in TaskIds : CaptureImport(id)

\* the page's side of one execution
HandlerNext ==
    \/ \E s \in Slots, host \in ToolHosts, images \in BOOLEAN : PageReceive(s, host, images, FALSE)
    \/ \E s \in Slots, outcome \in {"ok", "throw", "valid", "redirect"}, stuck \in BOOLEAN :
          PageStep(s, outcome, stuck, FALSE)
    \/ \E s \in Slots : PageGenerationDone(s)
    \/ \E s \in Slots : PageWaitTick(s)
    \/ \E s \in Slots : PageWaitTimeout(s)
    \/ \E s \in Slots : PageResult(s, {"image"}, TRUE)
    \/ \E s \in Slots, media \in OneUrl : ExecOnPageResponse(s, media)

\* runs whose executions are served by the content script of the tab
PageNext ==
    \/ \E q \in Queues : RunAll(q)
    \/ \E id \in DOMAIN tasks : RunSingle(id)
    \/ Stop
    \/ LoopAfterExecute
    \/ LoopAfterDelay
    \/ \E s \in Slots : ExecDispatch(s)
    \/ \E s \in Slots, ok \in SUBSET MediaUrls : ExecCacheDone(s, ok)
    \/ HandlerNext

\* Fill Only clicks served by the content script of the tab
FillPageNext ==
    \/ \E s \in DirectSlots, id \in TaskIds : FillOnlyClick(s, id)
    \/ \E s \in Slots : ExecDispatch(s)
    \/ HandlerNext

\* single-task runs served by the content script of the tab
WaitNext ==
    \/ \E id \in DOMAIN tasks : RunSingle(id)
    \/ LoopAfterExecute
    \/ \E s \in Slots : ExecDispatch(s)
    \/ \E s \in Slots, ok \in SUBSET MediaUrls : ExecCacheDone(s, ok)
    \/ HandlerNext

\* single-task runs sent to pages of any hostname
HostsNext ==
    \/ \E id \in DOMAIN tasks : RunSingle(id)
    \/ LoopAfterExecute
    \/ \E s \in Slots : ExecDispatch(s)
    \/ \E s \in Slots :
          /\ exec[s].pc = "sent" /\ page[s].pc = "idle"
          /\ \E host \in Hosts, images \in BOOLEAN : PageReceive(s, host, images, FALSE)
    \/ \E s \in Slots :
          /\ exec[s].pc = "sent" /\ page[s].pc = "idle"
          /\ \E host \in Hosts : PageNoListener(s, host)

\* liveness probes next to Fill Only clicks
ProbeNext ==
    \/ PingSend
    \/ \E host \in ProbeHosts : PingHandle(host)
    \/ \E host \in ProbeHosts : PingNoListener(host)
    \/ PingChannelClosed
    \/ FillPageNext

\* single-task runs on pages of every content, with indicators that may appear late
CaptureNext ==
    \/ \E id \in DOMAIN tasks : RunSingle(id)
    \/ LoopAfterExecute
    \/ \E s \in Slots : ExecDispatch(s)
    \/ \E s \in Slots, host \in ToolHosts, old \in BOOLEAN : PageReceive(s, host, FALSE, old)
    \/ \E s \in Slots, outcome \in {"ok", "valid"}, late \in BOOLEAN : PageStep(s, outcome, FALSE, late)
    \/ \E s \in Slots : PageIndicatorAppears(s)
    \/ \E s \in Slots : PageGenerationDone(s)
    \/ \E s \in Slots : PageWaitTick(s)
    \/ \E s \in Slots : PageWaitTimeout(s)
    \/ \E s \in Slots, item \in Items, fetchOk \in BOOLEAN : PageResult(s, item, fetchOk)
    \/ \E s \in Slots, fetchOk \in BOOLEAN : PageResultAgain(s, fetchOk)
    \/ \E s \in Slots : ExecOnPageResponse(s, {})

SpecCapture == InitTyped /\ [][CaptureNext]_vars

\* the dashboard creates, edits, duplicates and deletes tasks
ImagesNext ==
    \/ \E n \in 0..MaxImages : CreateTask(n)
    \/ \E id \in TaskIds, kept \in SUBSET (1..MaxImages), n \in 0..MaxImages : EditSubmit(id, kept, n)
    \/ \E id \in TaskIds : EditDelete(id)
    \/ \E id \in TaskIds : DuplicateTask(id)
    \/ Reload

SpecImages == Init /\ [][ImagesNext]_vars

\* single-task runs whose store writes interleave with those of the dashboard
TxnNext ==
    \/ \E id \in DOMAIN tasks : RunSingle(id)
    \/ LoopAfterExecute
    \/ \E s \in Slots : ExecPersistRead(s)
    \/ \E s \in Slots : ExecPersistWrite(s)
    \/ \E s \in Slots, resp \in HandlerResponses : ExecOutcomeRead(s, resp)
    \/ \E s \in Slots : ExecOutcomeWrite(s)
    \/ \E op \in {"delete", "update"}, id \in TaskIds, type \in EditTypes \cup {"none"} :
          DashboardRead(op, id, type)
    \/ DashboardWrite
    \/ Reload

SpecTxn == Init /\ [][TxnNext]_vars

\* single-task runs on a tab whose navigations succeed: validateState sees the URL
\* of the tab
RedirectNext ==
    \/ \E id \in DOMAIN tasks : RunSingle(id)
    \/ LoopAfterExecute
    \/ LoopAfterDelay
    \/ \E v \in BOOLEAN : SetRetryOnFail(v)
    \/ \E s \in Slots : ExecDispatch(s)
    \/ \E s \in Slots, host \in {h \in ToolHosts : HasValidateState(getAdapter(h))} :
            PageReceive(s, host, FALSE, FALSE)
    \/ \E s \in Slots, url \in Urls : PageValidate(s, url)
    \/ \E s \in Slots, outcome \in {"ok", "throw"} :
          /\ page[s].pc # "validateState"
          /\ PageStep(s, outcome, FALSE, FALSE)
    \/ \E s \in Slots : PageGenerationDone(s)
    \/ \E s \in Slots : PageWaitTick(s)
    \/ \E s \in Slots : PageResult(s, {"image"}, TRUE)
    \/ \E s \in Slots : ExecOnPageResponse(s, {})

SpecRedirect == InitTyped /\ [][RedirectNext]_vars

SpecHosts == Init /\ [][HostsNext]_vars

SpecProbe == Init /\ [][ProbeNext]_vars

Spec == Init /\ [][Next]_vars

CacheNext ==
    \/ \E id \in TaskIds : RunSingle(id)
    \/ LoopAfterExecute
    \/ \E s \in Slots : ExecDispatch(s)
    \/ \E s \in Slots, resp \in Responses, media \in SUBSET MediaUrls : ExecOnResponse(s, resp, media)
    \/ \E s \in Slots, ok \in SUBSET MediaUrls : ExecCacheDone(s, ok)

SpecCache == Init /\ [][CacheNext]_vars

SpecPage == Init /\ [][PageNext]_vars

SpecFillPage == Init /\ [][FillPageNext]_vars

\* the timers of waitForCompletion fire: setInterval ticks and the safety setTimeout
SpecWait ==
    /\ Init
    /\ [][WaitNext]_vars
    /\ \A s \in Slots : WF_vars(PageWaitTick(s)) /\ WF_vars(PageWaitTimeout(s))

SpecDashboard == Init /\ [][DashboardNext]_vars

SpecFill == Init /\ [][FillNext]_vars

SpecStore == Init /\ [][StoreNext]_vars

\* ----------------------------------------------------------- properties
LogIds == [i \in DOMAIN runLog |-> runLog[i].id]

LogOuts == [i \in DOMAIN runLog |-> runLog[i].out]

\* the run has ended and nothing has happened since
RunEnded == loopPc = "idle" /\ runLog # <<>>

\* the events of one invocation, in the order they happen
EventsOf(entry) ==
    (IF entry.sent THEN <<"Execute">> ELSE <<>>)
    \o (IF entry.out = "success" THEN <<"Success">>
        ELSE IF entry.out = "redirect" THEN <<"RedirectRequired">>
        ELSE IF entry.out = "failure" THEN <<"Failure">>
        ELSE <<>>)
    \o (IF entry.nav THEN <<"navigate">> ELSE <<>>)

RECURSIVE TraceOf(_)
TraceOf(log) ==
    IF log = <<>> THEN <<>> ELSE EventsOf(Head(log)) \o TraceOf(Tail(log))

\* C1: a run in which every execution returned Success, ended with auto-advance
\* enabled and without a stop request, has invoked the executor once per id of
\* the queue it was started with, in that order, and has left isRunning = false,
\* executingId = null and an empty remaining queue.
C1_AllSuccessRunsQueueInOrder ==
    (/\ RunEnded
     /\ \A i \in DOMAIN runLog : runLog[i].out = "success"
     /\ autoNext
     /\ ~stoppedRef)
    => (/\ LogIds = runQueue
        /\ ~isRunning
        /\ executingId = NoId
        /\ queuedIds = <<>>
        /\ remaining = <<>>)

C1_Witness ==
    /\ RunEnded
    /\ runQueue = <<2, 1>>
    /\ LogOuts = <<"success", "success">>
    /\ autoNext
    /\ ~stoppedRef

\* C2: from the moment stop() has been called in a run, whatever the outcome of
\* the task then executing and whatever the flags, the run makes no further
\* executor invocation; so no task after T is started.
C2_NoInvocationAfterStop ==
    [][(isRunning /\ stoppedRef) => Len(runLog') = Len(runLog)]_vars

C2_Witness ==
    /\ RunEnded
    /\ stoppedRef
    /\ Len(runLog) < Len(runQueue)
    /\ runLog[Len(runLog)].out = "success"
    /\ autoNext

\* C4: when a Failure of T is handled with retry-on-failure enabled, T is at the
\* head of the remaining queue during the delay that follows, and the next
\* executor invocation of the run, if the run makes one, is T again.
C4_RetryReinvokesSameTask ==
    /\ \A i \in DOMAIN runLog :
          (runLog[i].out = "failure" /\ runLog[i].retry /\ i < Len(runLog))
              => runLog[i + 1].id = runLog[i].id
    /\ loopPc = "retryDelay"
          => (remaining # <<>> /\ Head(remaining) = runLog[Len(runLog)].id)

C4_Witness ==
    /\ Len(runLog) = 3
    /\ runQueue = <<1, 2>>
    /\ runLog[1].out = "failure" /\ runLog[1].retry
    /\ runLog[2].id = 1 /\ runLog[2].out = "success"
    /\ runLog[3].id = 2

\* C5: after T's execution returns RedirectRequired, T stays at the head of the
\* queue, T's status is pending (not failed), and the next executor invocation of
\* the run, if the run makes one, is T again; the retry and auto-advance flags
\* play no part.
C5_RedirectRetriesSameTask ==
    /\ \A i \in DOMAIN runLog :
          (runLog[i].out = "redirect" /\ i < Len(runLog))
              => runLog[i + 1].id = runLog[i].id
    /\ loopPc = "redirectWait"
          => (/\ remaining # <<>>
              /\ Head(remaining) = runLog[Len(runLog)].id
              /\ StoreHas(store, Head(remaining))
                    => store[Head(remaining)].status = "pending")

C5_Witness ==
    /\ Len(runLog) = 3
    /\ runQueue = <<1, 2>>
    /\ LogIds = <<1, 1, 1>>
    /\ runLog[1].out = "redirect" /\ runLog[2].out = "redirect"
    /\ ~autoNext /\ ~retryOnFail

\* C6: a run of the single task T whose first execution returned
\* RedirectRequired and whose second returned Success has the trace Execute,
\* RedirectRequired, navigate, Execute, Success; T is completed and has exactly
\* one TaskResult more than when the run started.
C6_RedirectThenSuccess ==
    \A t \in TaskIds :
        (/\ RunEnded
         /\ runQueue = <<t>>
         /\ LogOuts = <<"redirect", "success">>
         /\ StoreHas(store, t))
        => (/\ TraceOf(runLog) =
                 <<"Execute", "RedirectRequired", "navigate", "Execute", "Success">>
            /\ store[t].status = "completed"
            /\ Len(store[t].results) = Len(runTasks[t].results) + 1
            /\ ResultIds(SubSeq(store[t].results, 1, Len(runTasks[t].results)))
                   = ResultIds(runTasks[t].results))

C6_Witness ==
    /\ RunEnded
    /\ runQueue = <<1>>
    /\ LogOuts = <<"redirect", "success">>
    /\ StoreHas(store, 1)

C3_OneExecuteInFlight == Cardinality({ s \in Slots : exec[s].pc = "sent" }) <= 1

\* C7: when a submitting execution of T handles its outcome: on Success T is
\* completed and T's results are the results T had plus the one new TaskResult,
\* and the media-cache rewrite adds none; on Failure T is failed and on
\* RedirectRequired T is pending, with T's results as they were.
C7_OutcomeWrites ==
    [][\A t \in DOMAIN store :
          /\ (/\ exec[0].pc = "sent" /\ exec[0].taskId = t /\ ~exec[0].fillOnly
              /\ exec'[0].pc \in {"returned", "caching"})
             => (/\ t \in DOMAIN store'
                 /\ IF exec'[0].pc = "caching" \/ exec'[0].ret = "success"
                    THEN /\ store'[t].status = "completed"
                         /\ ResultIds(store'[t].results)
                                = Append(ResultIds(store[t].results), exec'[0].newResult.id)
                    ELSE /\ store'[t].status
                                = (IF exec'[0].ret = "redirect" THEN "pending" ELSE "failed")
                         /\ store'[t].results = store[t].results)
          /\ (exec[0].pc = "caching" /\ exec[0].taskId = t /\ exec'[0].pc = "returned")
             => (/\ t \in DOMAIN store'
                 /\ store'[t].status = store[t].status
                 /\ ResultIds(store'[t].results) = ResultIds(store[t].results))
      ]_vars

\* the ids of old are all in new, in the same relative order
Keeps(old, new) ==
    SelectSeq(new, LAMBDA x : \E i \in DOMAIN old : old[i] = x) = old

\* C8: every write to a task that stays in the store (an execution's, a
\* media-cache update, an import of captured results) keeps the TaskResults the
\* task had, in their order: the results list is only ever extended.
C8_ResultsOnlyExtended ==
    [][\A t \in (DOMAIN store) \cap (DOMAIN store') :
          Keeps(ResultIds(store[t].results), ResultIds(store'[t].results))]_vars

\* C9: whenever isRunning is set, a processing loop is there to continue the run
\* and to clear it: no error of an execution leaves the scheduler stuck.
C9_SchedulerNeverStuck ==
    isRunning => loopPc \in {"exec", "redirectWait", "retryDelay", "nextDelay"}

\* C20 as stated: an invocation whose outcome, Success or Failure, was handled
\* with auto-advance disabled is the last invocation of its run.
C20_StopsWithoutAutoAdvance ==
    \A i \in DOMAIN runLog :
        (runLog[i].out \in {"success", "failure"} /\ ~runLog[i].auto) => i = Len(runLog)

\* C20 amended: an invocation whose outcome was handled with auto-advance
\* disabled, and was Success, or Failure with retry-on-failure disabled, is the
\* last invocation of its run.
C20_StopsUnlessRetried ==
    \A i \in DOMAIN runLog :
        (/\ runLog[i].out \in {"success", "failure"}
         /\ ~runLog[i].auto
         /\ ~runLog[i].retry) => i = Len(runLog)

C20_Witness ==
    /\ RunEnded
    /\ runQueue = <<1, 2>>
    /\ Len(runLog) = 1
    /\ runLog[1].out = "failure"
    /\ ~runLog[1].auto
    /\ ~stoppedRef

\* C11: once stop() has been called while T's execution is in flight (before or
\* after EXECUTE_PROMPT was sent), the page starts no further adapter step for
\* it: T is aborted instead of being submitted, awaited and captured.
C11_StopAbortsExecution ==
    [][(isRunning /\ stoppedRef /\ exec[0].pc \in {"starting", "sent"}) => ~(Len(page'[0].steps) > Len(page[0].steps))]_vars

StepOrder == <<"validateState", "clearEditor", "fillImages", "fillPrompt", "clickSend",
               "settle", "waitForCompletion", "getLatestResult">>

Rank(step) == CHOOSE i \in 1..Len(StepOrder) : StepOrder[i] = step

\* C13: the steps a handler has run respect the fixed order; when a step throws
\* the handler is over, that step is the last one it ran and the failure response
\* carries that step's message; clickSend only runs after fillPrompt has
\* completed and, for an adapter with validateState, after validation passed.
C13_StepsInOrder ==
    \A s \in Slots :
        LET h == page[s]
            n == Len(h.steps)
        IN
        /\ \A i, j \in 1..n : i < j => Rank(h.steps[i]) < Rank(h.steps[j])
        /\ (h.responses # <<>> /\ h.responses[1].kind = "error") =>
               /\ h.pc = "done"
               /\ n > 0
               /\ h.responses[1].error = h.steps[n]
        /\ \A j \in 1..n : h.steps[j] = "clickSend" =>
               /\ \E i \in 1..(j - 1) : h.steps[i] = "fillPrompt"
               /\ HasValidateState(h.adapter) => h.steps[1] = "validateState"
               /\ \A i \in 1..Len(h.responses) : h.responses[i].kind # "redirect"

C13_Witness ==
    /\ page[0].adapter = "jimeng"
    /\ page[0].steps = <<"validateState", "clearEditor", "fillImages", "fillPrompt", "clickSend">>
    /\ page[0].responses = <<ErrorResponse("clickSend")>>
    /\ page[0].pc = "done"

C15_FillOnlyNeverSubmits ==
    \A s \in Slots :
        (exec[s].pc = "sent" /\ exec[s].fillOnly) =>
            \A i \in 1..Len(page[s].steps) :
                page[s].steps[i] \notin {"clickSend", "waitForCompletion", "getLatestResult"}

\* C16: whatever the adapter, a handler that waits for completion eventually
\* stops waiting, even when the page's indicators never clear.
C16_WaitReturns == \A s \in Slots : (page[s].pc = "polling") ~> (page[s].pc # "polling")

\* C17: whatever the adapter, a poll tick that finds the execution cancelled
\* ends the wait.
C17_CancelEndsWait ==
    [][\A s \in Slots :
          (page[s].pc = "polling" /\ page[s].cancelled /\ PageWaitTick(s)) =>
              page'[s].pc # "polling"]_vars

\* C18: the scheduler's next step never waits for a media-cache fetch: while
\* the fetches of the execution it started are pending, its step after the
\* execution can be taken.
C18_CacheNeverHoldsScheduler ==
    (loopPc = "exec" /\ exec[0].pc = "caching") => ENABLED LoopAfterExecute

\* the TaskResults of task id in the store that carry the id of result r
StoredResult(id, r) ==
    {i \in 1..Len(store[id].results) : store[id].results[i].id = r.id}

\* C19: an execution whose result names media returns Success with its
\* TaskResult appended and the task completed whichever fetches failed, and
\* the TaskResult carries exactly the handles of the URLs that were fetched
\* and stored: none when none was.
C19_CacheFailuresAreSilent ==
    (exec[0].pc = "returned" /\ exec[0].mediaUrls # {}) =>
        LET e == exec[0]
            t == store[e.taskId]
        IN
        /\ e.ret = "success"
        /\ t.status = "completed"
        /\ \E i \in StoredResult(e.taskId, e.newResult) :
              LET ids == t.results[i].cachedMediaIds
              IN /\ {ids[k] : k \in 1..Len(ids)} = {Handle(u) : u \in e.stored}
                 /\ Len(ids) = Cardinality(e.stored)

C19_Witness ==
    /\ exec[0].pc = "returned"
    /\ exec[0].mediaUrls = {0, 1, 2}
    /\ exec[0].stored = {2}
    /\ store[exec[0].taskId].status = "completed"

\* the position of id in queue q
PosIn(q, id) == CHOOSE k \in DOMAIN q : q[k] = id

\* C21: whatever the outcomes, the first invocation of a run is the head of the
\* queue; an invocation that ended in a redirect, or in a failure handled with
\* retry enabled, is followed by the same task; any other invocation has a final
\* outcome and is followed by the next task of the queue, none skipped.
C21_StartedInQueueOrder ==
    /\ runLog # <<>> => runLog[1].id = runQueue[1]
    /\ \A i \in 1..(Len(runLog) - 1) :
          LET a == runLog[i]
              b == runLog[i + 1]
          IN IF a.out = "redirect" \/ (a.out = "failure" /\ a.retry)
             THEN b.id = a.id
             ELSE /\ a.out \in {"success", "failure"}
                  /\ PosIn(runQueue, b.id) = PosIn(runQueue, a.id) + 1

C21_Witness ==
    /\ RunEnded
    /\ runQueue = <<2, 1>>
    /\ LogIds = <<2, 2, 1>>
    /\ LogOuts = <<"redirect", "failure", "success">>

C29_HandlesPairWithUrls ==
    (exec[0].pc = "returned" /\ exec[0].mediaUrls # {}) =>
        LET e == exec[0]
            t == store[e.taskId]
        IN \A i \in StoredResult(e.taskId, e.newResult) :
              LET ids == t.results[i].cachedMediaIds
              IN \A k \in 1..Len(ids) : ids[k] = Handle(UrlSeq(e.mediaUrls)[k])

\* C23: a failure caused by an unreachable page context (no listener, page gone
\* before it answered, no response delivered) is shown with the reload-the-page
\* message, a failure of an adapter step never is, and in both cases the task
\* is marked failed.
C23_ConnectivityClassified ==
    (exec[0].pc = "returned" /\ exec[0].cause # "none") =>
        /\ store[exec[0].taskId].status = "failed"
        /\ exec[0].cause \in {"connerr", "closed", "silent"} => error = "refresh"
        /\ exec[0].cause = "error" => error = "failed"

\* the states in which processQueue waits on randomDelay()
InRandomDelay == loopPc \in {"retryDelay", "nextDelay"}

\* C28: a randomized delay is at least 1000 ms and less than 4000 ms; every
\* invocation of a run after the first follows a delay; a failure handled with
\* retry is followed by a randomized delay; a randomized delay is only waited
\* while a task is left to start, so none follows the last task of the queue.
C28_DelaysInRange ==
    /\ [](InRandomDelay => (1000 <= delayMs /\ delayMs < 4000))
    /\ [](InRandomDelay => remaining # <<>>)
    /\ [](loopPc \in {"idle", "exec"} => delayMs = 0)
    /\ [][(runLog # <<>> /\ Len(runLog') > Len(runLog)) =>
            (InRandomDelay \/ loopPc = "redirectWait")]_vars
    /\ [][(loopPc = "exec" /\ loopPc' # "exec" /\ exec[0].ret = "failure" /\ retryOnFail /\ ~stoppedRef) =>
            loopPc' = "retryDelay"]_vars
    /\ [][(loopPc = "exec" /\ loopPc' = "idle" /\ exec[0].pc = "returned") => delayMs' = 0]_vars

C28_Witness ==
    /\ loopPc = "nextDelay"
    /\ delayMs > 2000
    /\ runLog[Len(runLog)].out = "failure"
    /\ runQueue = <<1, 2>>

\* C22: a PING handled by the listener of a loaded content script has been
\* answered once the handler has returned.
C22_PingAnswered ==
    (probe.loaded /\ probe.pc \in {"open", "rejected"}) => Len(probe.responses) = 1

\* the adapters whose detect() is true on the page of handler h
Detecting(h) == {a \in AdapterNames : detect(a, h.host)}

\* C27: on the page of every installed handler exactly one adapter's detect()
\* is true, and it is the adapter that serves the page; a request sent to a
\* page on which no adapter matches starts no handler.
C27_OneAdapterPerPage ==
    \A s \in Slots :
        page[s].pc # "idle" =>
            /\ Cardinality(Detecting(page[s])) = 1
            /\ page[s].adapter \in Detecting(page[s])

\* the kinds of artifact that satisfy an expected type
Wanted(expected) == IF expected = "mixed" THEN Kinds ELSE {expected}

\* C24: the payload getLatestResult returns is of the expected type whenever
\* the latest item contains an artifact of that type, otherwise of a kind the
\* item does contain, and it is null only when the item contains no artifact.
C24_ExpectedTypePreferred ==
    \A s \in Slots :
        page[s].result # NoPayload =>
            LET item == IF page[s].item = NoItem THEN {} ELSE page[s].item
                type == page[s].result.type
            IN  /\ (item \cap Wanted(page[s].expected) # {}) =>
                       type \in (item \cap Wanted(page[s].expected))
                /\ (item # {}) => type \in item
                /\ (type = "null") => item = {}

\* C25: a second call of getLatestResult with the same expected type on the
\* unchanged page returns the payload the first call returned.
C25_CaptureIdempotent ==
    \A s \in Slots :
        page[s].again # NoPayload => page[s].again = page[s].result

\* C30: the result appended for an execution is never read from an item that
\* was on the page before that execution's clickSend.
C30_ResultIsNew ==
    [][\A s \in Slots :
          (exec[s].pc = "sent" /\ exec'[s].pc # "sent" /\ exec'[s].newResult # NoResult) =>
              page[s].origin # "old"]_vars

\* C32: while the scheduler is not running no task is shown as executing and
\* none as queued, and the executing task is never among the queued ones.
C32_IdleSchedulerShowsNothing ==
    /\ ~isRunning => (executingId = NoId /\ queuedIds = <<>>)
    /\ \A i \in DOMAIN queuedIds : queuedIds[i] # executingId

\* a run of two tasks has ended by a stop during its first execution
C32_Witness ==
    /\ ~isRunning
    /\ runs = 1
    /\ stoppedRef
    /\ Len(runQueue) = 2
    /\ Len(runLog) = 1

\* processQueue handles the outcome of an execution without a stop request
\* and without a redirect
HandlesOutcome ==
    /\ loopPc = "exec"
    /\ loopPc' # "exec"
    /\ exec[0].pc = "returned"
    /\ exec[0].ret \in {"success", "failure"}
    /\ ~stoppedRef

\* C35: each outcome is handled with the values the two toggles have at that
\* moment: a failure is retried exactly if retry-on-failure is on then, and
\* otherwise the run goes on exactly if auto-advance is on then.
C35_TogglesReadAtEachOutcome ==
    [][HandlesOutcome =>
          LET retried == exec[0].ret = "failure" /\ retryOnFail IN
          /\ (loopPc' = "retryDelay") <=> retried
          /\ (~retried /\ ~autoNext) => loopPc' = "idle"
          /\ (~retried /\ autoNext /\ Len(remaining) > 1) => loopPc' = "nextDelay"]_vars

\* retry-on-failure was off when the first failure of the run was handled and
\* on when the second was
C35_Witness ==
    /\ loopPc = "retryDelay"
    /\ Len(runLog) = 2
    /\ runLog[1].out = "failure" /\ ~runLog[1].retry
    /\ runLog[2].out = "failure" /\ runLog[2].retry

\* the invocations of the current run in which task id was redirected
RedirectsOf(id) == {i \in DOMAIN runLog : runLog[i].id = id /\ runLog[i].out = "redirect"}

\* C34: on a Jimeng page at the redirectUrl of the task's result type
\* validateState answers no redirect, and in a run whose navigations succeed
\* no task is redirected more than once.
C34_OneRedirectPerTask ==
    /\ \A s \in Slots :
          LET h == page[s]
              type == resultType[exec[s].taskId]
          IN  (/\ h.adapter = "jimeng"
               /\ h.steps # <<>>
               /\ type \in {"image", "video"}
               /\ tabUrl = RedirectUrl(type)) =>
                  \A i \in DOMAIN h.responses : h.responses[i].kind # "redirect"
    /\ \A id \in TaskIds : Cardinality(RedirectsOf(id)) <= 1

\* a video task was redirected once and then executed on the video page
C34_Witness ==
    /\ Len(runLog) = 2
    /\ runLog[1].out = "redirect"
    /\ runLog[2].out = "success"
    /\ runLog[2].id = runLog[1].id
    /\ resultType[runLog[1].id] = "video"
    /\ tabUrl = {"type=video"}

\* no executeTask activation is pending and processQueue is not running
Quiescent == (\A s \in Slots : exec[s].pc = "idle") /\ ~isRunning /\ loopPc = "idle"

\* C31: while no execution is in flight and no run is active, no task of the
\* store has status in_progress.
C31_InProgressIsTransient ==
    Quiescent => \A id \in DOMAIN store : store[id].status # "in_progress"

\* the engine's TaskStore.update of task a writes the array
EngineWrites(a) ==
    /\ txn["engine"].pc = "read"
    /\ txn["engine"].id = a
    /\ txn'["engine"].pc = "idle"

\* C33: when an update of task A by the engine is written, every other task
\* of the store is left as it was: still present or still absent, with the
\* same status, results and result type.
C33_UpdateLeavesOthersAlone ==
    [][\A a, b \in TaskIds :
          (EngineWrites(a) /\ b # a) =>
              /\ StoreHas(store', b) <=> StoreHas(store, b)
              /\ StoreHas(store, b) => store'[b] = store[b]
              /\ resultType'[b] = resultType[b]]_vars

\* C36: every id in the referenceImageIds of a task of the store is the id of
\* a stored image.
C36_ReferencesResolve ==
    \A id \in DOMAIN store : referenceImageIds[id] \subseteq imageStore.ids

====
